---- MODULE Spec2Model ----
(***************************************************************************)
(* Model of the appointment ("turnos") service of gestion_turnos:          *)
(*   - the validators of src/lib/turnos.ts (validarFormatoFecha, ...),     *)
(*     computed on character strings the way the JavaScript code computes  *)
(*     them (Date parsing included);                                       *)
(*   - the table "turnos" of scripts/setup-db.sql with its partial unique  *)
(*     index unique_turno_activo;                                          *)
(*   - the four tools of src/lib/tools.ts (verificarDisponibilidad,        *)
(*     reservarTurno, listarTurnos, cancelarTurno), one action per segment *)
(*     of a handler between two awaits on the store or on the mailer.      *)
(* Strings are tuples of one-character strings.  Instants are minutes      *)
(* since 1970-01-01T00:00Z; calendar days are days since 1970-01-01.       *)
(***************************************************************************)
EXTENDS Integers, Sequences, FiniteSets, TLC

(***************************************************************************)
(* Bounds of the model.                                                    *)
(***************************************************************************)
MaxTurnos == 2
MaxTicks == 1

\* The callers of the tools: two customers, each reserving under its own name.
Callers == {1, 2}

(***************************************************************************)
(* Characters and numbers.                                                 *)
(***************************************************************************)
Digits == <<"0", "1", "2", "3", "4", "5", "6", "7", "8", "9">>

IsDigit(c) == \E i \in 1..10 : Digits[i] = c

DigitVal(c) == (CHOOSE i \in 1..10 : Digits[i] = c) - 1

Num2(s, i) == 10 * DigitVal(s[i]) + DigitVal(s[i + 1])

Num4(s, i) == 100 * Num2(s, i) + Num2(s, i + 2)

\* The value of an Invalid Date (getTime() is NaN): every comparison with it is false.
NaN == -1

MinutosPorDia == 24 * 60

(***************************************************************************)
(* Calendar arithmetic (proleptic Gregorian), as Date and the DATE type    *)
(* of the store compute it.                                                *)
(***************************************************************************)
EsBisiesto(y) == (y % 4 = 0 /\ y % 100 # 0) \/ y % 400 = 0

DiasEnMes(y, m) ==
  IF m = 2 THEN (IF EsBisiesto(y) THEN 29 ELSE 28)
  ELSE IF m \in {4, 6, 9, 11} THEN 30 ELSE 31

\* Days from 1970-01-01 to the civil date y-m-d (1 <= m <= 12).
DiasDesdeCivil(y, m, d) ==
  LET yy == IF m <= 2 THEN y - 1 ELSE y
      era == yy \div 400
      yoe == yy - era * 400
      mp == IF m > 2 THEN m - 3 ELSE m + 9
      doy == (153 * mp + 2) \div 5 + d - 1
      doe == yoe * 365 + yoe \div 4 - yoe \div 100 + doy
  IN era * 146097 + doe - 719468

(***************************************************************************)
(* The validators (src/lib/turnos.ts, imported by the tools as             *)
(* "./validaciones").                                                      *)
(***************************************************************************)
\* /^\d{4}-\d{2}-\d{2}$/
RegexFecha(s) ==
  /\ Len(s) = 10
  /\ \A i \in {1, 2, 3, 4, 6, 7, 9, 10} : IsDigit(s[i])
  /\ s[5] = "-"
  /\ s[8] = "-"

\* new Date("YYYY-MM-DD") for a string of that shape: the date-only ISO form is
\* UTC midnight.  The engine accepts a month 01-12 and a day 01-31 and lets a day
\* past the end of the month run into the next month; anything else is an Invalid
\* Date.  The result is the instant in minutes, or NaN.
DateDeFecha(s) ==
  LET y == Num4(s, 1)
      m == Num2(s, 6)
      d == Num2(s, 9)
  IN IF m \in 1..12 /\ d \in 1..31
     THEN (DiasDesdeCivil(y, m, 1) + d - 1) * MinutosPorDia
     ELSE NaN

validarFormatoFecha(fecha) ==
  IF ~RegexFecha(fecha) THEN FALSE ELSE DateDeFecha(fecha) # NaN

\* /^([01]?[0-9]|2[0-3]):[0-5][0-9]$/
validarFormatoHora(hora) ==
  \/ /\ Len(hora) = 4
     /\ IsDigit(hora[1])
     /\ hora[2] = ":"
     /\ hora[3] \in {"0", "1", "2", "3", "4", "5"}
     /\ IsDigit(hora[4])
  \/ /\ Len(hora) = 5
     /\ \/ hora[1] \in {"0", "1"} /\ IsDigit(hora[2])
        \/ hora[1] = "2" /\ hora[2] \in {"0", "1", "2", "3"}
     /\ hora[3] = ":"
     /\ hora[4] \in {"0", "1", "2", "3", "4", "5"}
     /\ IsDigit(hora[5])

\* Date.prototype.setHours(0, 0, 0, 0): the local midnight of the local day of
\* instant t, in a zone tzmin minutes east of UTC; an Invalid Date stays invalid.
SetHoursCero(t, tzmin) ==
  IF t = NaN THEN NaN
  ELSE ((t + tzmin) \div MinutosPorDia) * MinutosPorDia - tzmin

validarFechaFutura(fecha, now, tzmin) ==
  LET fechaTurno == SetHoursCero(DateDeFecha(fecha), tzmin)
      hoy == SetHoursCero(now, tzmin)
  IN fechaTurno # NaN /\ fechaTurno >= hoy

\* new Date(`${fecha}T${hora}`): a date-time without offset is local time.  The
\* ISO form needs a two-digit hour; a one-digit hour gives an Invalid Date.
DateDeFechaHora(fecha, hora, tzmin) ==
  LET dia == DateDeFecha(fecha)
  IN IF dia = NaN \/ Len(hora) # 5 THEN NaN
     ELSE dia + 60 * Num2(hora, 1) + Num2(hora, 4) - tzmin

validarFechaHoraFutura(fecha, hora, now, tzmin) ==
  LET fechaHoraTurno == DateDeFechaHora(fecha, hora, tzmin)
  IN fechaHoraTurno # NaN /\ fechaHoraTurno > now

\* split(":").map(Number) and the comparison in minutes with 09:00 and 18:00.
MinutosDeHora(hora) ==
  IF Len(hora) = 4 THEN 60 * DigitVal(hora[1]) + Num2(hora, 3)
  ELSE 60 * Num2(hora, 1) + Num2(hora, 4)

validarHorarioLaboral(hora) ==
  MinutosDeHora(hora) >= 9 * 60 + 0 /\ MinutosDeHora(hora) <= 18 * 60 + 0

(***************************************************************************)
(* The store: table turnos.  fecha is a DATE (a day number), hora a TIME   *)
(* (minutes of the day); the store casts the strings it is sent.           *)
(***************************************************************************)
\* The cast text -> DATE fails unless the string names a real calendar day.
FechaDeTabla(s) ==
  LET y == Num4(s, 1)
      m == Num2(s, 6)
      d == Num2(s, 9)
  IN IF RegexFecha(s) /\ y >= 1 /\ m \in 1..12 /\ d >= 1 /\ d <= DiasEnMes(y, m)
     THEN DiasDesdeCivil(y, m, d)
     ELSE NaN

\* The cast text -> TIME of a string the hour regex accepts.
HoraDeTabla(s) == MinutosDeHora(s)

\* The rows of the table with an active (confirmado) turno at a day and minute.
ActivosEn(tabla, dia, minuto) ==
  {i \in 1..Len(tabla) :
     /\ tabla[i].fecha = dia
     /\ tabla[i].hora = minuto
     /\ tabla[i].estado = "confirmado"}

\* Mutant: the table was created without the unique index.
ViolaUnique_SinIndice(tabla, fila) == FALSE

\* Mutant: the unique index also covers the customer's email.
ViolaUnique_PorCliente(tabla, fila) ==
  /\ fila.estado = "confirmado"
  /\ \E i \in ActivosEn(tabla, fila.fecha, fila.hora) : tabla[i].email = fila.email

\* Mutant: the unique index is on the fecha alone.
ViolaUnique_SoloFecha(tabla, fila) ==
  /\ fila.estado = "confirmado"
  /\ \E i \in 1..Len(tabla) :
       tabla[i].estado = "confirmado" /\ tabla[i].fecha = fila.fecha

\* CREATE UNIQUE INDEX unique_turno_activo ON turnos(fecha, hora) WHERE estado =
\* 'confirmado': a new row is rejected when it is confirmado and another
\* confirmado row has its fecha and hora.
ViolaUniqueTurnoActivo(tabla, fila) ==
  fila.estado = "confirmado" /\ ActivosEn(tabla, fila.fecha, fila.hora) # {}

\* The row an insert makes of a NuevoTurno: the estado of the draft, confirmado
\* when the draft has none (turno.estado || "confirmado"); the id (here the
\* position in the table) is generated and created_at defaults to NOW().
FilaNueva(fecha, hora, cliente, estado, now) ==
  [fecha |-> FechaDeTabla(fecha),
   hora |-> HoraDeTabla(hora),
   nombre_cliente |-> cliente,
   email |-> cliente,
   estado |-> IF estado = "" THEN "confirmado" ELSE estado,
   created_at |-> now]

\* Mutant: the result of the query is not looked at.
verificarDisponibilidad_Siempre(tabla, fecha, hora) == TRUE

\* Mutant: the query leaves out the filter on estado.
verificarDisponibilidad_SinEstado(tabla, fecha, hora) ==
  {i \in 1..Len(tabla) :
     tabla[i].fecha = FechaDeTabla(fecha) /\ tabla[i].hora = HoraDeTabla(hora)} = {}

\* select id ... eq fecha, eq hora, eq estado confirmado, limit 1; then
\* !data || data.length === 0.  Meaningful when the query raised no error.
verificarDisponibilidad(tabla, fecha, hora) ==
  ActivosEn(tabla, FechaDeTabla(fecha), HoraDeTabla(hora)) = {}

\* The store answers a query with an error when it is unreachable or when a
\* value cannot be cast to the column's type.
ErrorDeConsulta(fecha, falla) == falla \/ FechaDeTabla(fecha) = NaN

(***************************************************************************)
(* Inputs.                                                                 *)
(***************************************************************************)
F_0301 == <<"2", "0", "3", "1", "-", "0", "3", "-", "0", "1">>
F_0302 == <<"2", "0", "3", "1", "-", "0", "3", "-", "0", "2">>
F_0230 == <<"2", "0", "3", "1", "-", "0", "2", "-", "3", "0">>
F_mal == <<"1", "/", "3", "/", "3", "1">>

H_0900 == <<"0", "9", ":", "0", "0">>
H_900 == <<"9", ":", "0", "0">>
H_2000 == <<"2", "0", ":", "0", "0">>
H_2400 == <<"2", "4", ":", "0", "0">>

\* The (fechaDesde, fechaHasta) arguments of listarTurnos; <<>> is an argument
\* left out.
EntradasListar ==
  {<< <<>>, <<>> >>, <<F_0301, F_0302>>, <<F_0302, F_0230>>, <<F_mal, <<>> >>,
   <<F_0302, <<>> >>}

\* The (fecha, hora) arguments the callers send: a malformed date, a malformed
\* hour, a day that does not exist, a one-digit hour, and slots of two days.
Entradas ==
  {<<F_mal, H_0900>>, <<F_0302, H_2400>>, <<F_0230, H_2000>>, <<F_0302, H_900>>,
   <<F_0301, H_0900>>, <<F_0302, H_0900>>, <<F_0302, H_2000>>}

\* Offsets of the server's time zone, in minutes east of UTC.
Zonas == {-180, 0, 120}

\* 2031-03-01T13:30Z, and the step of the clock.
Ahora0 == DiasDesdeCivil(2031, 3, 1) * MinutosPorDia + 13 * 60 + 30
PasoTick == 24 * 60

(***************************************************************************)
(* State.                                                                  *)
(***************************************************************************)
VARIABLES
  turnos,   \* the table: a sequence of rows, the id of a row is its position
  pc,       \* per caller: where its reservarTurno call is, or how its last one ended
  args,     \* per caller: the arguments (and the turno id) of the call in flight
  emails,   \* the turno ids handed to the mailer, in order
  ahora,    \* the current instant
  tz,       \* the offset of the server's time zone
  ultimo    \* the response returned by the step just taken, if it returned one

vars == <<turnos, pc, args, emails, ahora, tz, ultimo>>

EnVuelo == {"creando", "enviando"}

SinArgs == [fecha |-> <<>>, hora |-> <<>>, turnoId |-> 0]

\* A response: the operation and its arguments, the kind of result (tipo; a
\* thrown exception is a kind of its own), the store's error behind it (detalle),
\* the number of store calls made, and what the result's message carries: the
\* sentence about the mail, the turno id it names, the rows it lists.  For a
\* call of one of the validators, valor is the boolean it returned; aviso tells
\* that the call logged the warning about the business hours.
Ninguna ==
  [op |-> "ninguna", fecha |-> <<>>, hora |-> <<>>, fechaHasta |-> <<>>, turnoId |-> 0,
   tipo |-> "", detalle |-> "", accesos |-> 0, emailEnviado |-> FALSE, listados |-> <<>>,
   mensajeEmail |-> "", idEnMensaje |-> 0, soloConfirmados |-> TRUE,
   argDesde |-> <<>>, argHasta |-> <<>>, valor |-> FALSE, aviso |-> FALSE]

Resp(op, fecha, hora, tipo, accesos) ==
  [Ninguna EXCEPT !.op = op, !.fecha = fecha, !.hora = hora,
                  !.tipo = tipo, !.accesos = accesos]

Init ==
  /\ turnos = <<>>
  /\ pc = [p \in Callers |-> "idle"]
  /\ args = [p \in Callers |-> SinArgs]
  /\ emails = <<>>
  /\ ahora = Ahora0
  /\ tz \in Zonas
  /\ ultimo = Ninguna

\* The response of the last step reaches its caller; the steps of the handlers
\* are taken one response at a time.
Entregar ==
  /\ ultimo # Ninguna
  /\ ultimo' = Ninguna
  /\ UNCHANGED <<turnos, pc, args, emails, ahora, tz>>

Tick ==
  /\ ultimo = Ninguna
  /\ ahora < Ahora0 + MaxTicks * PasoTick
  /\ ahora' = ahora + PasoTick
  /\ ultimo' = Ninguna
  /\ UNCHANGED <<turnos, pc, args, emails, tz>>

(***************************************************************************)
(* toolVerificarDisponibilidad.execute: the validations and the one query. *)
(***************************************************************************)
\* The error the store reports: it cannot be reached, or it rejects the statement.
DetalleDeError(falla) == IF falla THEN "conexion" ELSE "conversion"

RespuestaVerificar(tabla, fecha, hora, now, tzmin, falla) ==
  IF ~validarFormatoFecha(fecha) THEN Resp("verificar", fecha, hora, "fecha_invalida", 0)
  ELSE IF ~validarFormatoHora(hora) THEN Resp("verificar", fecha, hora, "hora_invalida", 0)
  ELSE IF ~validarFechaFutura(fecha, now, tzmin)
    THEN Resp("verificar", fecha, hora, "fecha_pasada", 0)
  ELSE IF ErrorDeConsulta(fecha, falla)
    THEN [Resp("verificar", fecha, hora, "excepcion", 1)
            EXCEPT !.detalle = DetalleDeError(falla)]
  ELSE IF verificarDisponibilidad(tabla, fecha, hora)
    THEN Resp("verificar", fecha, hora, "disponible", 1)
  ELSE Resp("verificar", fecha, hora, "no_disponible", 1)

\* Mutant: a slot found free is held for the caller with a row of its own.
ToolVerificarDisponibilidad_Aparta(fecha, hora, falla) ==
  LET r == RespuestaVerificar(turnos, fecha, hora, ahora, tz, falla)
  IN /\ ultimo = Ninguna
     /\ ultimo' = r
     /\ turnos' = IF r.tipo = "disponible" /\ Len(turnos) < MaxTurnos
                   THEN Append(turnos, FilaNueva(fecha, hora, 0, "confirmado", ahora))
                   ELSE turnos
     /\ UNCHANGED <<pc, args, emails, ahora, tz>>

\* The tool only reads: the validations and one select.
ToolVerificarDisponibilidad(fecha, hora, falla) ==
  /\ ultimo = Ninguna
  /\ ultimo' = RespuestaVerificar(turnos, fecha, hora, ahora, tz, falla)
  /\ UNCHANGED <<turnos, pc, args, emails, ahora, tz>>

(***************************************************************************)
(* toolReservarTurno.execute, in three steps: the validations with the     *)
(* availability query, the insert, and the end of the mailer's call.       *)
(***************************************************************************)
\* Mutant: the validation of the combined date and time is left out.
ResultadoVerificar_SinFechaHora(tabla, fecha, hora, now, tzmin, falla) ==
  IF ~validarFormatoFecha(fecha) THEN [tipo |-> "fecha_invalida", accesos |-> 0, detalle |-> "", aviso |-> FALSE]
  ELSE IF ~validarFormatoHora(hora) THEN [tipo |-> "hora_invalida", accesos |-> 0, detalle |-> "", aviso |-> FALSE]
  ELSE IF ~validarFechaFutura(fecha, now, tzmin) THEN [tipo |-> "fecha_pasada", accesos |-> 0, detalle |-> "", aviso |-> FALSE]
  ELSE IF ErrorDeConsulta(fecha, falla)
    THEN [tipo |-> "excepcion", accesos |-> 1, detalle |-> DetalleDeError(falla),
          aviso |-> ~validarHorarioLaboral(hora)]
  ELSE IF ~verificarDisponibilidad(tabla, fecha, hora)
    THEN [tipo |-> "no_disponible", accesos |-> 1, detalle |-> "",
          aviso |-> ~validarHorarioLaboral(hora)]
  ELSE [tipo |-> "creando", accesos |-> 1, detalle |-> "",
        aviso |-> ~validarHorarioLaboral(hora)]

\* Mutant: an hour outside the business hours is refused.
ResultadoVerificar_HorarioEstricto(tabla, fecha, hora, now, tzmin, falla) ==
  IF ~validarFormatoFecha(fecha) THEN [tipo |-> "fecha_invalida", accesos |-> 0, detalle |-> "", aviso |-> FALSE]
  ELSE IF ~validarFormatoHora(hora) THEN [tipo |-> "hora_invalida", accesos |-> 0, detalle |-> "", aviso |-> FALSE]
  ELSE IF ~validarFechaFutura(fecha, now, tzmin) THEN [tipo |-> "fecha_pasada", accesos |-> 0, detalle |-> "", aviso |-> FALSE]
  ELSE IF ~validarFechaHoraFutura(fecha, hora, now, tzmin)
    THEN [tipo |-> "fechahora_pasada", accesos |-> 0, detalle |-> "", aviso |-> FALSE]
  ELSE IF ~validarHorarioLaboral(hora)
    THEN [tipo |-> "fuera_horario", accesos |-> 0, detalle |-> "", aviso |-> TRUE]
  ELSE IF ErrorDeConsulta(fecha, falla)
    THEN [tipo |-> "excepcion", accesos |-> 1, detalle |-> DetalleDeError(falla),
          aviso |-> ~validarHorarioLaboral(hora)]
  ELSE IF ~verificarDisponibilidad(tabla, fecha, hora)
    THEN [tipo |-> "no_disponible", accesos |-> 1, detalle |-> "",
          aviso |-> ~validarHorarioLaboral(hora)]
  ELSE [tipo |-> "creando", accesos |-> 1, detalle |-> "",
        aviso |-> ~validarHorarioLaboral(hora)]

\* Lines 114-158: the outcome of the validations and of the availability query;
\* "creando" when the call goes on to crearTurno.  After the four validations,
\* an hour outside 09:00-18:00 only writes a warning to the console (aviso,
\* lines 143-147) and the call goes on.
ResultadoVerificar(tabla, fecha, hora, now, tzmin, falla) ==
  IF ~validarFormatoFecha(fecha) THEN [tipo |-> "fecha_invalida", accesos |-> 0, detalle |-> "", aviso |-> FALSE]
  ELSE IF ~validarFormatoHora(hora) THEN [tipo |-> "hora_invalida", accesos |-> 0, detalle |-> "", aviso |-> FALSE]
  ELSE IF ~validarFechaFutura(fecha, now, tzmin) THEN [tipo |-> "fecha_pasada", accesos |-> 0, detalle |-> "", aviso |-> FALSE]
  ELSE IF ~validarFechaHoraFutura(fecha, hora, now, tzmin)
    THEN [tipo |-> "fechahora_pasada", accesos |-> 0, detalle |-> "", aviso |-> FALSE]
  ELSE IF ErrorDeConsulta(fecha, falla)
    THEN [tipo |-> "excepcion", accesos |-> 1, detalle |-> DetalleDeError(falla),
          aviso |-> ~validarHorarioLaboral(hora)]
  ELSE IF ~verificarDisponibilidad(tabla, fecha, hora)
    THEN [tipo |-> "no_disponible", accesos |-> 1, detalle |-> "",
          aviso |-> ~validarHorarioLaboral(hora)]
  ELSE [tipo |-> "creando", accesos |-> 1, detalle |-> "",
        aviso |-> ~validarHorarioLaboral(hora)]

ReservarVerificar(p, fecha, hora, falla) ==
  LET r == ResultadoVerificar(turnos, fecha, hora, ahora, tz, falla)
  IN /\ ultimo = Ninguna
     /\ pc[p] \notin EnVuelo
     /\ pc' = [pc EXCEPT ![p] = IF r.tipo = "creando" THEN "creando" ELSE "fallo"]
     /\ IF r.tipo = "creando"
        THEN /\ args' = [args EXCEPT ![p] = [fecha |-> fecha, hora |-> hora, turnoId |-> 0]]
             /\ ultimo' = Ninguna
        ELSE /\ args' = [args EXCEPT ![p] = SinArgs]
             /\ ultimo' = [Resp("reservar", fecha, hora, r.tipo, r.accesos)
                             EXCEPT !.detalle = r.detalle, !.aviso = r.aviso]
     /\ UNCHANGED <<turnos, emails, ahora, tz>>

\* Mutant: the mailer is called whether or not the insert succeeded.
ReservarCrear_AvisaSiempre(p, falla) ==
  LET fila == FilaNueva(args[p].fecha, args[p].hora, p, "confirmado", ahora)
      error == falla \/ ViolaUniqueTurnoActivo(turnos, fila)
  IN /\ ultimo = Ninguna
     /\ pc[p] = "creando"
     /\ IF error
        THEN /\ pc' = [pc EXCEPT ![p] = "fallo"]
             /\ args' = [args EXCEPT ![p] = SinArgs]
             /\ emails' = Append(emails, 0)
             /\ ultimo' = [Resp("reservar", args[p].fecha, args[p].hora, "error_crear", 2)
                             EXCEPT !.detalle = IF falla THEN "conexion" ELSE "duplicado"]
             /\ UNCHANGED turnos
        ELSE /\ Len(turnos) < MaxTurnos
             /\ turnos' = Append(turnos, fila)
             /\ emails' = Append(emails, Len(turnos) + 1)
             /\ pc' = [pc EXCEPT ![p] = "enviando"]
             /\ args' = [args EXCEPT ![p].turnoId = Len(turnos) + 1]
             /\ ultimo' = Ninguna
     /\ UNCHANGED <<ahora, tz>>

\* Mutant: an insert the store rejected leaves a cancelado row of the attempt.
ReservarCrear_RegistraIntento(p, falla) ==
  LET fila == FilaNueva(args[p].fecha, args[p].hora, p, "confirmado", ahora)
      error == falla \/ ViolaUniqueTurnoActivo(turnos, fila)
  IN /\ ultimo = Ninguna
     /\ pc[p] = "creando"
     /\ IF error
        THEN /\ pc' = [pc EXCEPT ![p] = "fallo"]
             /\ args' = [args EXCEPT ![p] = SinArgs]
             /\ ultimo' = [Resp("reservar", args[p].fecha, args[p].hora, "error_crear", 2)
                             EXCEPT !.detalle = IF falla THEN "conexion" ELSE "duplicado"]
             /\ turnos' = IF Len(turnos) < MaxTurnos
                           THEN Append(turnos, [fila EXCEPT !.estado = "cancelado"])
                           ELSE turnos
             /\ UNCHANGED emails
        ELSE /\ Len(turnos) < MaxTurnos
             /\ turnos' = Append(turnos, fila)
             /\ emails' = Append(emails, Len(turnos) + 1)
             /\ pc' = [pc EXCEPT ![p] = "enviando"]
             /\ args' = [args EXCEPT ![p].turnoId = Len(turnos) + 1]
             /\ ultimo' = Ninguna
     /\ UNCHANGED <<ahora, tz>>

\* crearTurno: the insert.  An error of the store, the unique index's included,
\* is thrown by crearTurno and caught by the tool's catch (lines 194-200).  On
\* success the tool calls enviarEmailConfirmacion and awaits it.
ReservarCrear(p, falla) ==
  LET fila == FilaNueva(args[p].fecha, args[p].hora, p, "confirmado", ahora)
      error == falla \/ ViolaUniqueTurnoActivo(turnos, fila)
  IN /\ ultimo = Ninguna
     /\ pc[p] = "creando"
     /\ IF error
        THEN /\ pc' = [pc EXCEPT ![p] = "fallo"]
             /\ args' = [args EXCEPT ![p] = SinArgs]
             /\ ultimo' = [Resp("reservar", args[p].fecha, args[p].hora, "error_crear", 2)
                             EXCEPT !.detalle = IF falla THEN "conexion" ELSE "duplicado"]
             /\ UNCHANGED <<turnos, emails>>
        ELSE /\ Len(turnos) < MaxTurnos
             /\ turnos' = Append(turnos, fila)
             /\ emails' = Append(emails, Len(turnos) + 1)
             /\ pc' = [pc EXCEPT ![p] = "enviando"]
             /\ args' = [args EXCEPT ![p].turnoId = Len(turnos) + 1]
             /\ ultimo' = Ninguna
     /\ UNCHANGED <<ahora, tz>>

\* Mutant: a mail that could not be sent cancels the turno and fails the call.
ReservarEmail_Revierte(p, emailEnviado) ==
  /\ ultimo = Ninguna
  /\ pc[p] = "enviando"
  /\ pc' = [pc EXCEPT ![p] = IF emailEnviado THEN "exito" ELSE "fallo"]
  /\ args' = [args EXCEPT ![p] = SinArgs]
  /\ turnos' = IF emailEnviado THEN turnos
                ELSE [turnos EXCEPT ![args[p].turnoId].estado = "cancelado"]
  /\ ultimo' = [Resp("reservar", args[p].fecha, args[p].hora,
                      IF emailEnviado THEN "exito" ELSE "error_crear", 2)
                  EXCEPT !.turnoId = args[p].turnoId, !.emailEnviado = emailEnviado]
  /\ UNCHANGED <<emails, ahora, tz>>

\* enviarEmailConfirmacion resolves to true, or to false when sendMail threw; the
\* tool then returns exito: true either way (lines 181-193).
ReservarEmail(p, emailEnviado) ==
  /\ ultimo = Ninguna
  /\ pc[p] = "enviando"
  /\ pc' = [pc EXCEPT ![p] = "exito"]
  /\ args' = [args EXCEPT ![p] = SinArgs]
  /\ ultimo' = [Resp("reservar", args[p].fecha, args[p].hora, "exito", 2)
                  EXCEPT !.turnoId = args[p].turnoId, !.emailEnviado = emailEnviado,
                         !.mensajeEmail = IF emailEnviado THEN "Se envio un email" ELSE "",
                         !.idEnMensaje = args[p].turnoId]
  /\ UNCHANGED <<turnos, emails, ahora, tz>>

(***************************************************************************)
(* toolCancelarTurno.execute with cancelarTurno: one update ... eq id ...  *)
(* select().single().  With no row of that id single() reports an error,   *)
(* like an unreachable store; cancelarTurno throws and the tool catches.   *)
(***************************************************************************)
\* Mutant: the update flips the estado instead of setting it.
ToolCancelarTurno_Alterna(turnoId, falla) ==
  /\ ultimo = Ninguna
  /\ turnoId \in 1..Len(turnos)
  /\ turnos' = [turnos EXCEPT ![turnoId].estado =
                   IF @ = "cancelado" THEN "confirmado" ELSE "cancelado"]
  /\ ultimo' = [Resp("cancelar", <<>>, <<>>, "exito", 1) EXCEPT !.turnoId = turnoId]
  /\ UNCHANGED <<pc, args, emails, ahora, tz>>

\* Mutant: the row is deleted instead of updated.
ToolCancelarTurno_Borra(turnoId, falla) ==
  /\ ultimo = Ninguna
  /\ turnoId \in 1..Len(turnos)
  /\ turnos' = [i \in 1..(Len(turnos) - 1) |->
                   IF i < turnoId THEN turnos[i] ELSE turnos[i + 1]]
  /\ ultimo' = [Resp("cancelar", <<>>, <<>>, "exito", 1) EXCEPT !.turnoId = turnoId]
  /\ UNCHANGED <<pc, args, emails, ahora, tz>>

\* Mutant: the update only matches rows that are still confirmado.
ToolCancelarTurno_SoloActivos(turnoId, falla) ==
  /\ ultimo = Ninguna
  /\ IF falla \/ turnoId \notin 1..Len(turnos) \/ turnos[turnoId].estado # "confirmado"
     THEN /\ ultimo' = [Resp("cancelar", <<>>, <<>>, "error_cancelar", 1)
                          EXCEPT !.turnoId = turnoId,
                                 !.detalle = IF falla THEN "conexion" ELSE "sin_filas"]
          /\ UNCHANGED turnos
     ELSE /\ turnos' = [turnos EXCEPT ![turnoId].estado = "cancelado"]
          /\ ultimo' = [Resp("cancelar", <<>>, <<>>, "exito", 1) EXCEPT !.turnoId = turnoId]
  /\ UNCHANGED <<pc, args, emails, ahora, tz>>

\* Mutant: the update writes the whole row again, its created_at too.
ToolCancelarTurno_Reescribe(turnoId, falla) ==
  /\ ultimo = Ninguna
  /\ IF falla \/ turnoId \notin 1..Len(turnos)
     THEN /\ ultimo' = [Resp("cancelar", <<>>, <<>>, "error_cancelar", 1)
                          EXCEPT !.turnoId = turnoId,
                                 !.detalle = IF falla THEN "conexion" ELSE "sin_filas"]
          /\ UNCHANGED turnos
     ELSE /\ turnos' = [turnos EXCEPT ![turnoId].estado = "cancelado",
                                      ![turnoId].created_at = ahora]
          /\ ultimo' = [Resp("cancelar", <<>>, <<>>, "exito", 1) EXCEPT !.turnoId = turnoId]
  /\ UNCHANGED <<pc, args, emails, ahora, tz>>

ToolCancelarTurno(turnoId, falla) ==
  /\ ultimo = Ninguna
  /\ IF falla \/ turnoId \notin 1..Len(turnos)
     THEN /\ ultimo' = [Resp("cancelar", <<>>, <<>>, "error_cancelar", 1)
                          EXCEPT !.turnoId = turnoId,
                                 !.detalle = IF falla THEN "conexion" ELSE "sin_filas"]
          /\ UNCHANGED turnos
     ELSE /\ turnos' = [turnos EXCEPT ![turnoId].estado = "cancelado"]
          /\ ultimo' = [Resp("cancelar", <<>>, <<>>, "exito", 1) EXCEPT !.turnoId = turnoId]
  /\ UNCHANGED <<pc, args, emails, ahora, tz>>

(***************************************************************************)
(* toolListarTurnos.execute and listarTurnos.                              *)
(***************************************************************************)
Pad2(n) == <<Digits[(n \div 10) + 1], Digits[(n % 10) + 1]>>

Pad4(n) == Pad2(n \div 100) \o Pad2(n % 100)

\* new Date().toISOString().split("T")[0]: the UTC calendar day of instant t,
\* as YYYY-MM-DD.
FechaISO(t) ==
  LET z == t \div MinutosPorDia + 719468
      era == z \div 146097
      doe == z - era * 146097
      yoe == (doe - doe \div 1460 + doe \div 36524 - doe \div 146096) \div 365
      doy == doe - (365 * yoe + yoe \div 4 - yoe \div 100)
      mp == (5 * doy + 2) \div 153
      d == doy - (153 * mp + 2) \div 5 + 1
      m == IF mp < 10 THEN mp + 3 ELSE mp - 9
      y == yoe + era * 400 + (IF m <= 2 THEN 1 ELSE 0)
  IN Pad4(y) \o <<"-">> \o Pad2(m) \o <<"-">> \o Pad2(d)

\* The query of listarTurnos fails when the store does, or when a date of the
\* range cannot be cast to the column's type.
ErrorDeListar(fechaDesde, fechaHasta, falla) ==
  \/ falla
  \/ fechaDesde # <<>> /\ FechaDeTabla(fechaDesde) = NaN
  \/ fechaHasta # <<>> /\ FechaDeTabla(fechaHasta) = NaN

\* Mutant: the upper end of the range is excluded.
FilasListadas_SinUltimoDia(tabla, fechaDesde, fechaHasta, soloConfirmados) ==
  {i \in 1..Len(tabla) :
     /\ fechaDesde # <<>> => tabla[i].fecha >= FechaDeTabla(fechaDesde)
     /\ fechaHasta # <<>> => tabla[i].fecha < FechaDeTabla(fechaHasta)
     /\ soloConfirmados => tabla[i].estado = "confirmado"}

\* select * ... gte fecha, lte fecha, eq estado confirmado: the ids of the rows
\* the filters keep.
FilasListadas(tabla, fechaDesde, fechaHasta, soloConfirmados) ==
  {i \in 1..Len(tabla) :
     /\ fechaDesde # <<>> => tabla[i].fecha >= FechaDeTabla(fechaDesde)
     /\ fechaHasta # <<>> => tabla[i].fecha <= FechaDeTabla(fechaHasta)
     /\ soloConfirmados => tabla[i].estado = "confirmado"}

\* order by fecha, hora: the rows in every order the store may return them in,
\* rows of one fecha and hora in any order.
listarTurnos(tabla, fechaDesde, fechaHasta, soloConfirmados) ==
  LET ids == FilasListadas(tabla, fechaDesde, fechaHasta, soloConfirmados)
      n == Cardinality(ids)
  IN {s \in [1..n -> ids] :
        /\ \A a, b \in 1..n : a # b => s[a] # s[b]
        /\ \A a, b \in 1..n :
             a < b => \/ tabla[s[a]].fecha < tabla[s[b]].fecha
                      \/ /\ tabla[s[a]].fecha = tabla[s[b]].fecha
                         /\ tabla[s[a]].hora <= tabla[s[b]].hora}

ToolListarTurnos(argDesde, argHasta, falla) ==
  LET fechaDesde == IF argDesde # <<>> THEN argDesde ELSE FechaISO(ahora)
      fechaHasta == IF argHasta # <<>> THEN argHasta ELSE fechaDesde
      R(tipo, accesos, lista) ==
        [Resp("listar", fechaDesde, <<>>, tipo, accesos)
           EXCEPT !.fechaHasta = fechaHasta, !.listados = lista,
                  !.argDesde = argDesde, !.argHasta = argHasta]
  IN /\ ultimo = Ninguna
     /\ IF argDesde # <<>> /\ ~validarFormatoFecha(argDesde)
          THEN ultimo' = R("fecha_invalida", 0, <<>>)
        ELSE IF argHasta # <<>> /\ ~validarFormatoFecha(argHasta)
          THEN ultimo' = R("fecha_invalida", 0, <<>>)
        ELSE IF ErrorDeListar(fechaDesde, fechaHasta, falla)
          THEN ultimo' = [R("excepcion", 1, <<>>) EXCEPT !.detalle = DetalleDeError(falla)]
        ELSE \E s \in listarTurnos(turnos, fechaDesde, fechaHasta, TRUE) :
               ultimo' = R("lista", 1, s)
     /\ UNCHANGED <<turnos, pc, args, emails, ahora, tz>>

\* listarTurnos called as the module exports it, with its three parameters.
LlamarListarTurnos(fechaDesde, fechaHasta, soloConfirmados, falla) ==
  LET R(tipo, lista) ==
        [Resp("listarTurnos", fechaDesde, <<>>, tipo, 1)
           EXCEPT !.fechaHasta = fechaHasta, !.listados = lista,
                  !.argDesde = fechaDesde, !.argHasta = fechaHasta,
                  !.soloConfirmados = soloConfirmados]
  IN /\ ultimo = Ninguna
     /\ IF ErrorDeListar(fechaDesde, fechaHasta, falla)
          THEN ultimo' = [R("excepcion", <<>>) EXCEPT !.detalle = DetalleDeError(falla)]
        ELSE \E s \in listarTurnos(turnos, fechaDesde, fechaHasta, soloConfirmados) :
               ultimo' = R("lista", s)
     /\ UNCHANGED <<turnos, pc, args, emails, ahora, tz>>

Next ==
  \/ Entregar
  \/ Tick
  \/ \E e \in Entradas : ToolVerificarDisponibilidad(e[1], e[2], FALSE)
  \/ \E p \in Callers, e \in Entradas : ReservarVerificar(p, e[1], e[2], FALSE)
  \/ \E p \in Callers : ReservarCrear(p, FALSE)
  \/ \E p \in Callers, emailEnviado \in BOOLEAN : ReservarEmail(p, emailEnviado)
  \/ \E id \in 1..(MaxTurnos + 1) : ToolCancelarTurno(id, FALSE)
  \/ \E e \in EntradasListar : ToolListarTurnos(e[1], e[2], FALSE)

Spec == Init /\ [][Next]_vars

(***************************************************************************)
(* The race of the spec's scenario: every caller calls reservarTurno once, *)
(* for the same free slot 2031-03-02 20:00, each with its own customer.    *)
(***************************************************************************)
NextCarrera ==
  \/ Entregar
  \/ \E p \in Callers : pc[p] = "idle" /\ ReservarVerificar(p, F_0302, H_2000, FALSE)
  \/ \E p \in Callers : ReservarCrear(p, FALSE)
  \/ \E p \in Callers, emailEnviado \in BOOLEAN : ReservarEmail(p, emailEnviado)

SpecCarrera == Init /\ [][NextCarrera]_vars

(***************************************************************************)
(* The race again, with the scheduling the runtime guarantees: a response  *)
(* is delivered and the store answers an insert; the mailer's call may     *)
(* never end (sendMail is awaited with no timeout of the tool's own).      *)
(***************************************************************************)
SpecEspera ==
  /\ Init
  /\ [][NextCarrera]_vars
  /\ WF_vars(Entregar)
  /\ \A p \in Callers : WF_vars(ReservarCrear(p, FALSE))

(***************************************************************************)
(* The store may be unreachable at any of its calls.                       *)
(***************************************************************************)
EntradasConFalla == {<<F_mal, H_0900>>, <<F_0302, H_2000>>}

RangosConFalla == {<< <<>>, <<>> >>, <<F_mal, <<>> >>}

NextFalla ==
  \/ Entregar
  \/ \E e \in EntradasConFalla, falla \in BOOLEAN :
       ToolVerificarDisponibilidad(e[1], e[2], falla)
  \/ \E p \in Callers, e \in EntradasConFalla, falla \in BOOLEAN :
       ReservarVerificar(p, e[1], e[2], falla)
  \/ \E p \in Callers, falla \in BOOLEAN : ReservarCrear(p, falla)
  \/ \E p \in Callers, emailEnviado \in BOOLEAN : ReservarEmail(p, emailEnviado)
  \/ \E id \in 1..(MaxTurnos + 1), falla \in BOOLEAN : ToolCancelarTurno(id, falla)
  \/ \E e \in RangosConFalla, falla \in BOOLEAN : ToolListarTurnos(e[1], e[2], falla)

SpecFalla == Init /\ [][NextFalla]_vars

(***************************************************************************)
(* The listing: one caller makes reservations on two days, late in the     *)
(* evening too; they are cancelled, and listed through the tool and        *)
(* through listarTurnos.                                                   *)
(***************************************************************************)
Primero == CHOOSE p \in Callers : \A q \in Callers : p <= q

\* 2031-03-01T23:00Z.
AhoraNoche == DiasDesdeCivil(2031, 3, 1) * MinutosPorDia + 23 * 60

EntradasDeListado == {<<F_0301, H_2000>>, <<F_0302, H_0900>>, <<F_0302, H_2000>>}

RangosDirectos == {<<F_0301, F_0302>>, <<F_0302, F_0302>>, <<F_0301, F_0301>>}

InitListar ==
  /\ turnos = <<>>
  /\ pc = [p \in Callers |-> "idle"]
  /\ args = [p \in Callers |-> SinArgs]
  /\ emails = <<>>
  /\ ahora \in {Ahora0, AhoraNoche}
  /\ tz \in Zonas
  /\ ultimo = Ninguna

NextListar ==
  \/ Entregar
  \/ \E e \in EntradasDeListado : ReservarVerificar(Primero, e[1], e[2], FALSE)
  \/ ReservarCrear(Primero, FALSE)
  \/ ReservarEmail(Primero, TRUE)
  \/ \E id \in 1..MaxTurnos : ToolCancelarTurno(id, FALSE)
  \/ \E e \in EntradasListar : ToolListarTurnos(e[1], e[2], FALSE)
  \/ \E e \in RangosDirectos, soloConfirmados \in BOOLEAN :
       LlamarListarTurnos(e[1], e[2], soloConfirmados, FALSE)

SpecListar == InitListar /\ [][NextListar]_vars

(***************************************************************************)
(* crearTurno called on its own with a draft (NuevoTurno) of the caller's, *)
(* whose optional estado is absent (""), confirmado or cancelado.          *)
(***************************************************************************)
EstadosDeBorrador == {"", "confirmado", "cancelado"}

BorradoresDePrueba == {<<F_0302, H_0900>>, <<F_0302, H_2000>>, <<F_0230, H_0900>>}

\* One insert ... select().single(): the row is added with the estado of the
\* draft, unless the store raises an error, which crearTurno throws.
LlamarCrearTurno(p, fecha, hora, estado, falla) ==
  LET fila == FilaNueva(fecha, hora, p, estado, ahora)
      error == falla \/ fila.fecha = NaN \/ ViolaUniqueTurnoActivo(turnos, fila)
  IN /\ ultimo = Ninguna
     /\ IF error
        THEN /\ ultimo' = [Resp("crearTurno", fecha, hora, "excepcion", 1)
                             EXCEPT !.detalle = IF falla THEN "conexion"
                                                ELSE IF fila.fecha = NaN THEN "conversion"
                                                ELSE "duplicado"]
             /\ UNCHANGED turnos
        ELSE /\ Len(turnos) < MaxTurnos
             /\ turnos' = Append(turnos, fila)
             /\ ultimo' = [Resp("crearTurno", fecha, hora, "exito", 1)
                             EXCEPT !.turnoId = Len(turnos) + 1]
     /\ UNCHANGED <<pc, args, emails, ahora, tz>>

NextInsertar ==
  \/ Entregar
  \/ Tick
  \/ \E p \in Callers : \E e \in BorradoresDePrueba : \E estado \in EstadosDeBorrador :
       LlamarCrearTurno(p, e[1], e[2], estado, FALSE)
  \/ \E id \in 1..MaxTurnos : ToolCancelarTurno(id, FALSE)

SpecInsertar == Init /\ [][NextInsertar]_vars

(***************************************************************************)
(* Each caller makes one reservarTurno call, for a slot of its own that is *)
(* free, while turnos are cancelled and slots are queried.                 *)
(***************************************************************************)
SlotDe(p) == IF p = Primero THEN <<F_0302, H_0900>> ELSE <<F_0302, H_2000>>

NextDistintos ==
  \/ Entregar
  \/ \E p \in Callers :
       pc[p] = "idle" /\ ReservarVerificar(p, SlotDe(p)[1], SlotDe(p)[2], FALSE)
  \/ \E p \in Callers : ReservarCrear(p, FALSE)
  \/ \E p \in Callers : \E e \in BOOLEAN : ReservarEmail(p, e)
  \/ \E id \in 1..MaxTurnos : ToolCancelarTurno(id, FALSE)
  \/ \E p \in Callers : ToolVerificarDisponibilidad(SlotDe(p)[1], SlotDe(p)[2], FALSE)

SpecDistintos == Init /\ [][NextDistintos]_vars

(***************************************************************************)
(* The validators of lib/turnos.ts called on their own, at several times   *)
(* of the day and in each zone.                                            *)
(***************************************************************************)
F_0228 == <<"2", "0", "3", "1", "-", "0", "2", "-", "2", "8">>
F_0300 == <<"2", "0", "3", "1", "-", "0", "3", "-", "0", "0">>
F_0332 == <<"2", "0", "3", "1", "-", "0", "3", "-", "3", "2">>
F_1301 == <<"2", "0", "3", "1", "-", "1", "3", "-", "0", "1">>
F_0010 == <<"2", "0", "3", "1", "-", "0", "0", "-", "1", "0">>
F_24_0230 == <<"2", "0", "2", "4", "-", "0", "2", "-", "3", "0">>
F_24_0229 == <<"2", "0", "2", "4", "-", "0", "2", "-", "2", "9">>
F_23_0431 == <<"2", "0", "2", "3", "-", "0", "4", "-", "3", "1">>
F_23_0229 == <<"2", "0", "2", "3", "-", "0", "2", "-", "2", "9">>

H_2359 == <<"2", "3", ":", "5", "9">>
H_930 == <<"9", ":", "3", "0">>
H_1260 == <<"1", "2", ":", "6", "0">>
H_mal == <<"0", "9", "0", "0">>

FechasDePrueba ==
  {F_0228, F_0301, F_0302, F_0230, F_0300, F_0332, F_1301, F_0010,
   F_24_0230, F_24_0229, F_23_0431, F_23_0229, F_mal}

HorasDePrueba == {H_0900, H_900, H_930, H_2000, H_2359, H_2400, H_1260, H_mal}

\* 2031-03-01 at 00:30Z, 02:30Z, 13:30Z, 21:30Z and 23:00Z.
AhorasDePrueba ==
  {Ahora0 - 13 * 60, Ahora0 - 11 * 60, Ahora0, Ahora0 + 8 * 60, AhoraNoche}

InitValidar ==
  /\ turnos = <<>>
  /\ pc = [p \in Callers |-> "idle"]
  /\ args = [p \in Callers |-> SinArgs]
  /\ emails = <<>>
  /\ ahora \in AhorasDePrueba
  /\ tz \in Zonas
  /\ ultimo = Ninguna

LlamarValidarFormatoFecha(fecha) ==
  /\ ultimo = Ninguna
  /\ ultimo' = [Resp("validarFormatoFecha", fecha, <<>>, "", 0)
                  EXCEPT !.valor = validarFormatoFecha(fecha)]
  /\ UNCHANGED <<turnos, pc, args, emails, ahora, tz>>

LlamarValidarFormatoHora(hora) ==
  /\ ultimo = Ninguna
  /\ ultimo' = [Resp("validarFormatoHora", <<>>, hora, "", 0)
                  EXCEPT !.valor = validarFormatoHora(hora)]
  /\ UNCHANGED <<turnos, pc, args, emails, ahora, tz>>

\* The tools call validarFechaFutura on a string validarFormatoFecha accepted.
LlamarValidarFechaFutura(fecha) ==
  /\ ultimo = Ninguna
  /\ validarFormatoFecha(fecha)
  /\ ultimo' = [Resp("validarFechaFutura", fecha, <<>>, "", 0)
                  EXCEPT !.valor = validarFechaFutura(fecha, ahora, tz)]
  /\ UNCHANGED <<turnos, pc, args, emails, ahora, tz>>

\* validarFechaHoraFutura, likewise called after the two format validators.
LlamarValidarFechaHoraFutura(fecha, hora) ==
  /\ ultimo = Ninguna
  /\ validarFormatoFecha(fecha)
  /\ validarFormatoHora(hora)
  /\ ultimo' = [Resp("validarFechaHoraFutura", fecha, hora, "", 0)
                  EXCEPT !.valor = validarFechaHoraFutura(fecha, hora, ahora, tz)]
  /\ UNCHANGED <<turnos, pc, args, emails, ahora, tz>>

NextValidar ==
  \/ Entregar
  \/ \E f \in FechasDePrueba : LlamarValidarFormatoFecha(f)
  \/ \E h \in HorasDePrueba : LlamarValidarFormatoHora(h)
  \/ \E f \in FechasDePrueba : LlamarValidarFechaFutura(f)
  \/ \E f \in {F_0301, F_0302} : \E h \in HorasDePrueba :
       LlamarValidarFechaHoraFutura(f, h)

SpecValidar == InitValidar /\ [][NextValidar]_vars

(***************************************************************************)
(* The notions of the specification the properties are stated with.        *)
(***************************************************************************)
\* s has the shape YYYY-MM-DD and names a real calendar day.
EsFechaReal(s) ==
  /\ RegexFecha(s)
  /\ Num2(s, 6) \in 1..12
  /\ Num2(s, 9) >= 1
  /\ Num2(s, 9) <= DiasEnMes(Num4(s, 1), Num2(s, 6))

\* s is HH:MM with a two-digit hour 00-23 and a minute 00-59.
EsHoraHHMM(s) ==
  /\ Len(s) = 5
  /\ IsDigit(s[1]) /\ IsDigit(s[2]) /\ s[3] = ":" /\ IsDigit(s[4]) /\ IsDigit(s[5])
  /\ Num2(s, 1) <= 23
  /\ Num2(s, 4) <= 59

DiaDe(s) == DiasDesdeCivil(Num4(s, 1), Num2(s, 6), Num2(s, 9))

MinutoDe(s) == 60 * Num2(s, 1) + Num2(s, 4)

\* The calendar day of instant t in the zone of the service.
DiaLocal(t, tzmin) == (t + tzmin) \div MinutosPorDia

\* The slot (s, h) lies strictly after instant t, in the zone of the service.
SlotFuturo(s, h, t, tzmin) == DiaDe(s) * MinutosPorDia + MinutoDe(h) - tzmin > t

Retornado == {"exito", "fallo"}

\* Row i was created by a reservarTurno call that has returned.
CreadorRetorno(i) == \A p \in Callers : ~(pc[p] = "enviando" /\ args[p].turnoId = i)

\* The four validations of reservarTurno, at instant t.
PasaValidacion(f, h, t, tzmin) ==
  /\ validarFormatoFecha(f)
  /\ validarFormatoHora(h)
  /\ validarFechaFutura(f, t, tzmin)
  /\ validarFechaHoraFutura(f, h, t, tzmin)

TiposValidacion == {"fecha_invalida", "hora_invalida", "fecha_pasada", "fechahora_pasada"}

(***************************************************************************)
(* Properties.                                                             *)
(***************************************************************************)
\* C1: in every reachable state, a (fecha, hora) pair has at most one row whose
\* estado is confirmado.
C1_UnActivoPorSlot ==
  \A i, j \in 1..Len(turnos) :
    (/\ i # j
     /\ turnos[i].estado = "confirmado"
     /\ turnos[j].estado = "confirmado")
    => ~(turnos[i].fecha = turnos[j].fecha /\ turnos[i].hora = turnos[j].hora)

\* C1 witness: a caller's insert for a slot has just been rejected while another
\* caller's confirmado row holds the slot.
C1_Witness ==
  /\ ultimo.op = "reservar"
  /\ ultimo.detalle = "duplicado"
  /\ Cardinality(ActivosEn(turnos, DiaDe(ultimo.fecha), MinutoDe(ultimo.hora))) = 1

\* C2: in the race for one free slot, once every call has returned, exactly one
\* has returned success, the others a failure, and the slot has exactly one
\* confirmado row.
C2_CarreraUnExito ==
  (\A p \in Callers : pc[p] \in Retornado)
  => /\ Cardinality({p \in Callers : pc[p] = "exito"}) = 1
     /\ Cardinality({p \in Callers : pc[p] = "fallo"}) = Cardinality(Callers) - 1
     /\ Cardinality(ActivosEn(turnos, DiaDe(F_0302), MinutoDe(H_2000))) = 1

\* C2 witness: every call has returned and the last to return lost at the insert,
\* after its availability query had found the slot free.
C2_Witness ==
  /\ \A p \in Callers : pc[p] \in Retornado
  /\ ultimo.op = "reservar"
  /\ ultimo.detalle = "duplicado"

\* C3 (as claimed): a reservarTurno call whose insert the unique index rejected
\* returns the "not available" outcome, not the generic error.
C3_DuplicadoEsNoDisponible ==
  (ultimo.op = "reservar" /\ ultimo.detalle = "duplicado") => ultimo.tipo = "no_disponible"

\* C4: a row that is cancelado is still there and cancelado after every step.
C4_CanceladoEsTerminal ==
  [][\A i \in 1..Len(turnos) :
       turnos[i].estado = "cancelado"
       => i <= Len(turnos') /\ turnos'[i].estado = "cancelado"]_vars

\* C4 witness: a cancelado row has been cancelled again, after a later reservation
\* took its slot.
C4_Witness ==
  /\ ultimo.op = "cancelar"
  /\ ultimo.tipo = "exito"
  /\ \E j \in 1..Len(turnos) :
       /\ j > ultimo.turnoId
       /\ turnos[j].fecha = turnos[ultimo.turnoId].fecha
       /\ turnos[j].hora = turnos[ultimo.turnoId].hora
       /\ turnos[j].estado = "confirmado"

\* C5: no step removes a row: every id of the table stays in the table, with the
\* fecha, hora and customer it was created with.
C5_NuncaSeBorra ==
  [][/\ Len(turnos') >= Len(turnos)
     /\ \A i \in 1..Len(turnos) :
          /\ turnos'[i].fecha = turnos[i].fecha
          /\ turnos'[i].hora = turnos[i].hora
          /\ turnos'[i].nombre_cliente = turnos[i].nombre_cliente]_vars

\* C5 witness: every row of a full table has been cancelled and is still there.
C5_Witness ==
  /\ Len(turnos) = MaxTurnos
  /\ \A i \in 1..Len(turnos) : turnos[i].estado = "cancelado"

\* The slot of well-formed arguments (f, h) is in the future, has a cancelado row
\* and no confirmado row.
LibreTrasCancelar(f, h) ==
  /\ EsFechaReal(f)
  /\ EsHoraHHMM(h)
  /\ SlotFuturo(f, h, ahora, tz)
  /\ ActivosEn(turnos, DiaDe(f), MinutoDe(h)) = {}
  /\ \E i \in 1..Len(turnos) :
       /\ turnos[i].fecha = DiaDe(f)
       /\ turnos[i].hora = MinutoDe(h)
       /\ turnos[i].estado = "cancelado"

\* C6 (as claimed): for a future slot whose reservation was cancelled and that no
\* one has reserved since, verificarDisponibilidad answers available and
\* reservarTurno does not answer with a failure.
C6_CancelarLibera ==
  /\ (ultimo.op = "verificar" /\ LibreTrasCancelar(ultimo.fecha, ultimo.hora))
     => ultimo.tipo = "disponible"
  /\ (ultimo.op = "reservar" /\ LibreTrasCancelar(ultimo.fecha, ultimo.hora))
     => ultimo.tipo = "exito"

\* The call that just returned is a reservarTurno call with well-formed arguments
\* that ended in its first step, for a slot held by the confirmado row of a
\* reservation that had already returned.
ReservaPosterior ==
  /\ ultimo.op = "reservar"
  /\ ultimo.accesos <= 1
  /\ EsFechaReal(ultimo.fecha)
  /\ EsHoraHHMM(ultimo.hora)
  /\ \E i \in ActivosEn(turnos, DiaDe(ultimo.fecha), MinutoDe(ultimo.hora)) : CreadorRetorno(i)

\* C7 (as claimed): a later reservarTurno call for a slot that a returned
\* reservation still holds returns "not available".
C7_PosteriorNoDisponible ==
  ReservaPosterior => ultimo.tipo = "no_disponible"

\* C7 (amended): such a call returns a failure, which is "not available" exactly
\* when the arguments pass the validations, and a validation failure otherwise;
\* it never goes on to the insert, and the slot keeps exactly one confirmado row.
C7_PosteriorFalla ==
  /\ [](ReservaPosterior
        => /\ ultimo.tipo \in TiposValidacion \cup {"no_disponible"}
           /\ (ultimo.tipo = "no_disponible"
               <=> PasaValidacion(ultimo.fecha, ultimo.hora, ahora, tz))
           /\ Cardinality(ActivosEn(turnos, DiaDe(ultimo.fecha), MinutoDe(ultimo.hora))) = 1)
  /\ [][\A p \in Callers :
          (pc[p] \notin EnVuelo /\ pc'[p] = "creando")
          => ActivosEn(turnos, DiaDe(args'[p].fecha), MinutoDe(args'[p].hora)) = {}]_vars

\* C7 witness: a later call for a held slot has been answered "not available".
C7_Witness == ReservaPosterior /\ ultimo.tipo = "no_disponible"

\* The step is the first step of a reservarTurno call and returns its response.
RetornaEnPrimerPaso ==
  /\ ultimo = Ninguna
  /\ ultimo'.op = "reservar"
  /\ \A p \in Callers : pc[p] \in EnVuelo => pc'[p] = pc[p]

C9_DisponibleSiiLibre ==
  (/\ ultimo.op = "verificar"
   /\ validarFormatoFecha(ultimo.fecha)
   /\ validarFormatoHora(ultimo.hora)
   /\ EsFechaReal(ultimo.fecha)
   /\ DiaDe(ultimo.fecha) >= DiaLocal(ahora, tz))
  => /\ ultimo.tipo \in {"disponible", "no_disponible"}
     /\ (ultimo.tipo = "disponible"
         <=> ActivosEn(turnos, DiaDe(ultimo.fecha), HoraDeTabla(ultimo.hora)) = {})

\* C10: the step that ends the mailer's call, whether the mail was sent or not,
\* returns success for the call and leaves the table as it is.
C10_EmailNoRevierte ==
  [][\A p \in Callers :
       (pc[p] = "enviando" /\ pc'[p] # "enviando")
       => /\ pc'[p] = "exito"
          /\ ultimo'.tipo = "exito"
          /\ ultimo'.turnoId = args[p].turnoId
          /\ turnos' = turnos]_vars

\* C10 witness: a call whose mail was not sent has returned success and its row is
\* confirmado.
C10_Witness ==
  /\ ultimo.op = "reservar"
  /\ ultimo.tipo = "exito"
  /\ ~ultimo.emailEnviado
  /\ turnos[ultimo.turnoId].estado = "confirmado"

\* C11 (as claimed): a success result of reservarTurno whose mail could not be
\* sent carries a warning about the mail.
C11_AvisoDeEmailFallido ==
  (ultimo.op = "reservar" /\ ultimo.tipo = "exito" /\ ~ultimo.emailEnviado)
  => ultimo.mensajeEmail # ""

\* C12: the mailer is called only by the step in which a call's insert commits,
\* with the id of the row just inserted, so once per call and never by a call
\* that fails; no id is handed to the mailer twice.
C12_NotificadorTrasInsertar ==
  /\ [](\A a, b \in 1..Len(emails) : a # b => emails[a] # emails[b])
  /\ [](\A p \in Callers :
          pc[p] = "enviando" => \E a \in 1..Len(emails) : emails[a] = args[p].turnoId)
  /\ [][emails' # emails
        => \E p \in Callers :
             /\ pc[p] = "creando"
             /\ pc'[p] = "enviando"
             /\ Len(turnos') = Len(turnos) + 1
             /\ turnos'[Len(turnos')].estado = "confirmado"
             /\ turnos'[Len(turnos')].nombre_cliente = p
             /\ args'[p].turnoId = Len(turnos')
             /\ emails' = Append(emails, Len(turnos'))]_vars

\* C12 witness: a call's insert has been rejected after another call's insert
\* committed, and the mailer has been called once.
C12_Witness ==
  /\ ultimo.op = "reservar"
  /\ ultimo.tipo = "error_crear"
  /\ Len(turnos) = 1
  /\ emails = <<1>>

\* C13 (as claimed): cancelarTurno with an id that no row has returns a failure
\* whose message names that id.
C13_NoEncontradoNombraId ==
  (ultimo.op = "cancelar" /\ ultimo.turnoId \notin 1..Len(turnos))
  => /\ ultimo.tipo = "error_cancelar"
     /\ ultimo.idEnMensaje = ultimo.turnoId

\* C14: with the store reachable, every cancelarTurno call for the id of a row
\* returns success and leaves that row cancelado and every other row as it was;
\* on a row that is already cancelado it leaves the table unchanged.
C14_CancelarIdempotente ==
  [][\A id \in 1..Len(turnos) :
       (ultimo = Ninguna /\ ultimo'.op = "cancelar" /\ ultimo'.turnoId = id)
       => /\ ultimo'.tipo = "exito"
          /\ Len(turnos') = Len(turnos)
          /\ turnos'[id].estado = "cancelado"
          /\ \A j \in 1..Len(turnos) : j # id => turnos'[j] = turnos[j]
          /\ turnos[id].estado = "cancelado" => turnos' = turnos]_vars

\* C14 witness: the first row has been cancelled again after a later reservation
\* of its slot was made and cancelled too.
C14_Witness ==
  /\ ultimo.op = "cancelar"
  /\ ultimo.tipo = "exito"
  /\ ultimo.turnoId = 1
  /\ \E j \in 2..Len(turnos) :
       /\ turnos[j].fecha = turnos[1].fecha
       /\ turnos[j].hora = turnos[1].hora
       /\ turnos[j].estado = "cancelado"

\* The ids of the rows dated within [d1, d2], only the confirmado ones when solo.
EnRango(d1, d2, solo) ==
  {i \in 1..Len(turnos) :
     /\ d1 <= turnos[i].fecha
     /\ turnos[i].fecha <= d2
     /\ solo => turnos[i].estado = "confirmado"}

\* The response lists exactly the rows ids, each once, by ascending fecha and hora.
ListaExactamente(ids) ==
  /\ ultimo.tipo = "lista"
  /\ Len(ultimo.listados) = Cardinality(ids)
  /\ {ultimo.listados[a] : a \in 1..Len(ultimo.listados)} = ids
  /\ \A a, b \in 1..Len(ultimo.listados) :
       a < b => turnos[ultimo.listados[a]].fecha * MinutosPorDia
                  + turnos[ultimo.listados[a]].hora
                <= turnos[ultimo.listados[b]].fecha * MinutosPorDia
                  + turnos[ultimo.listados[b]].hora

\* C15: for real dates fechaDesde <= fechaHasta, a listing, through the tool or
\* through listarTurnos, returns exactly the rows dated within the range, only
\* the confirmado ones when soloConfirmados, each once, by ascending fecha and hora.
C15_ListaExacta ==
  (/\ ultimo.op \in {"listar", "listarTurnos"}
   /\ EsFechaReal(ultimo.fecha)
   /\ EsFechaReal(ultimo.fechaHasta)
   /\ DiaDe(ultimo.fecha) <= DiaDe(ultimo.fechaHasta))
  => ListaExactamente(EnRango(DiaDe(ultimo.fecha), DiaDe(ultimo.fechaHasta),
                              ultimo.soloConfirmados))

\* C15 witness: listarTurnos without the filter on estado has listed two rows, the
\* later row of the table first, one of the two cancelado.
C15_Witness ==
  /\ ultimo.op = "listarTurnos"
  /\ ~ultimo.soloConfirmados
  /\ ultimo.listados = <<2, 1>>
  /\ \E i \in 1..2 : turnos[i].estado = "cancelado"

\* C16 (as claimed): the tool called with no arguments lists exactly the
\* confirmado rows dated today, the calendar day of the service's zone, by
\* ascending hora; called with fechaDesde only, exactly those of that day.
C16_SinArgumentosEsHoy ==
  /\ (ultimo.op = "listar" /\ ultimo.argDesde = <<>> /\ ultimo.argHasta = <<>>)
     => ListaExactamente(EnRango(DiaLocal(ahora, tz), DiaLocal(ahora, tz), TRUE))
  /\ (ultimo.op = "listar" /\ EsFechaReal(ultimo.argDesde) /\ ultimo.argHasta = <<>>)
     => ListaExactamente(EnRango(DiaDe(ultimo.argDesde), DiaDe(ultimo.argDesde), TRUE))

\* C17 (as claimed): whenever no call is being answered, every cancelado row can
\* be retrieved by some call of the listing tool.
C17_CanceladoListable ==
  \A i \in 1..Len(turnos) :
    (ultimo = Ninguna /\ turnos[i].estado = "cancelado")
    => ENABLED (\E e \in EntradasListar :
                  /\ ToolListarTurnos(e[1], e[2], FALSE)
                  /\ \E a \in 1..Len(ultimo'.listados) : ultimo'.listados[a] = i)

\* C18 (as claimed): a call ends with a thrown exception exactly when one of its
\* store calls found the store unreachable.
C18_SoloFallasEscapan ==
  ultimo # Ninguna => (ultimo.tipo = "excepcion" <=> ultimo.detalle = "conexion")

\* C19 (as claimed): a reservarTurno call whose insert has committed returns its
\* success result, whether or not the mailer's call ever ends.
C19_RetornaSinEsperar ==
  \A p \in Callers : (pc[p] = "enviando") ~> (pc[p] = "exito")

\* C20 (as claimed): a reservarTurno call for a real day that is today and a time
\* HH:MM is refused by the validations exactly when the time is not after now:
\* it returns a validation failure if the slot has passed and goes on to the
\* store if it has not.
C20_HoyDespuesDeAhora ==
  /\ []((/\ ultimo.op = "reservar"
         /\ ultimo.accesos <= 1
         /\ EsFechaReal(ultimo.fecha)
         /\ EsHoraHHMM(ultimo.hora)
         /\ DiaDe(ultimo.fecha) = DiaLocal(ahora, tz))
        => (ultimo.tipo \in TiposValidacion
            <=> ~SlotFuturo(ultimo.fecha, ultimo.hora, ahora, tz)))
  /\ [][\A p \in Callers :
          (/\ pc[p] \notin EnVuelo
           /\ pc'[p] = "creando"
           /\ DiaDe(args'[p].fecha) = DiaLocal(ahora, tz))
          => SlotFuturo(args'[p].fecha, args'[p].hora, ahora, tz)]_vars

\* C21: validarFechaFutura(fecha) is true exactly when the day fecha names is
\* today or a later day in the zone of the service, at every offset of the zone
\* and every time of the day.
C21_FuturaSiiDesdeHoy ==
  (ultimo.op = "validarFechaFutura" /\ EsFechaReal(ultimo.fecha))
  => (ultimo.valor <=> DiaDe(ultimo.fecha) >= DiaLocal(ahora, tz))

\* C22: the business hours never refuse a reservation.  A reservarTurno call
\* whose arguments pass the four validations and name a real day returns from
\* its first step only with "not available", and only when the slot has a
\* confirmado row, whether or not the warning about the hours was logged; no
\* response of reservarTurno is of another kind than the validations', the
\* store's and the success.
C22_HorarioNoRechaza ==
  /\ [](ultimo.op = "reservar"
        => ultimo.tipo \in TiposValidacion
             \cup {"excepcion", "no_disponible", "error_crear", "exito"})
  /\ [][(/\ RetornaEnPrimerPaso
         /\ PasaValidacion(ultimo'.fecha, ultimo'.hora, ahora, tz)
         /\ EsFechaReal(ultimo'.fecha))
        => /\ ultimo'.tipo = "no_disponible"
           /\ ultimo'.aviso = ~validarHorarioLaboral(ultimo'.hora)
           /\ ~verificarDisponibilidad(turnos, ultimo'.fecha, ultimo'.hora)]_vars

\* C22 witness: a reservation for 20:00 has succeeded while the table holds a
\* confirmado row inside the business hours and one outside.
C22_Witness ==
  /\ ultimo.op = "reservar"
  /\ ultimo.tipo = "exito"
  /\ ~validarHorarioLaboral(ultimo.hora)
  /\ \E i, j \in 1..Len(turnos) :
       /\ turnos[i].estado = "confirmado" /\ turnos[i].hora = HoraDeTabla(H_0900)
       /\ turnos[j].estado = "confirmado" /\ turnos[j].hora = HoraDeTabla(H_2000)

\* C23: validarFormatoHora(hora) is true exactly when hora is a two-digit hour
\* 00-23, a colon and a two-digit minute 00-59.
C23_HoraSiiHHMM ==
  ultimo.op = "validarFormatoHora" => (ultimo.valor <=> EsHoraHHMM(ultimo.hora))

\* C24: validarFormatoFecha(fecha) is true exactly when fecha has the shape
\* YYYY-MM-DD and names a real calendar day.
C24_FechaSiiDiaReal ==
  ultimo.op = "validarFormatoFecha" => (ultimo.valor <=> EsFechaReal(ultimo.fecha))

\* C25: a row that crearTurno has inserted has the estado confirmado, whatever
\* draft the caller passed.
C25_InsertaConfirmado ==
  (ultimo.op = "crearTurno" /\ ultimo.tipo = "exito")
  => turnos[ultimo.turnoId].estado = "confirmado"

\* C26: a cancelarTurno call changes nothing but the estado of the row of its
\* id: that row keeps its place (id), fecha, hora, nombre_cliente, email and
\* created_at, every other row is as it was, no row is added or removed, and a
\* call that fails changes no row at all.
C26_CancelarSoloEstado ==
  [][(ultimo = Ninguna /\ ultimo'.op = "cancelar")
     => /\ Len(turnos') = Len(turnos)
        /\ \A i \in 1..Len(turnos) :
             turnos'[i] = IF i = ultimo'.turnoId /\ ultimo'.tipo = "exito"
                          THEN [turnos[i] EXCEPT !.estado = "cancelado"]
                          ELSE turnos[i]
        /\ UNCHANGED <<pc, args, emails>>]_vars

\* C26 witness: a row created before the clock moved has been cancelled, next to
\* a row that is still confirmado, and has the created_at of its creation.
C26_Witness ==
  /\ ultimo.op = "cancelar"
  /\ ultimo.tipo = "exito"
  /\ turnos[ultimo.turnoId].created_at = Ahora0
  /\ ahora > Ahora0
  /\ \E j \in 1..Len(turnos) : j # ultimo.turnoId /\ turnos[j].estado = "confirmado"

\* C27: verificarDisponibilidad and listarTurnos only read: a step of either
\* tool, whatever its arguments and its answer, leaves the table as it was, and
\* neither hands anything to the mailer nor touches a reservation in flight.
C27_LecturasSinEfectos ==
  [][(ultimo = Ninguna /\ ultimo'.op \in {"verificar", "listar", "listarTurnos"})
     => UNCHANGED <<turnos, emails, pc, args>>]_vars

\* C27 witness: a query of a taken slot has been answered on a full table that
\* holds a confirmado and a cancelado row, with mails handed to the mailer.
C27_Witness ==
  /\ ultimo.op = "verificar"
  /\ ultimo.tipo = "no_disponible"
  /\ Len(turnos) = MaxTurnos
  /\ Len(emails) = MaxTurnos
  /\ \E i, j \in 1..Len(turnos) :
       turnos[i].estado = "confirmado" /\ turnos[j].estado = "cancelado"

\* C28: a reservarTurno call that returns a failure has changed no row and
\* added none.  The step that returns a failure leaves the table as it was;
\* the only step of a reservarTurno call that changes the table is its insert,
\* which appends the one confirmado row of the call's slot and customer; and
\* a call that has inserted ends in success.
C28_FalloSinCambios ==
  [][/\ (ultimo = Ninguna /\ ultimo'.op = "reservar" /\ ultimo'.tipo # "exito")
        => turnos' = turnos
     /\ \A p \in Callers : (pc'[p] = "fallo" /\ pc[p] # "fallo") => turnos' = turnos
     /\ \A p \in Callers : pc[p] = "enviando" => pc'[p] \in {"enviando", "exito"}
     /\ (turnos' # turnos /\ ultimo'.op # "cancelar")
        => \E p \in Callers :
             /\ pc[p] = "creando"
             /\ pc'[p] = "enviando"
             /\ turnos' = Append(turnos,
                                 [fecha |-> DiaDe(args[p].fecha),
                                  hora |-> MinutoDe(args[p].hora),
                                  nombre_cliente |-> p, email |-> p,
                                  estado |-> "confirmado", created_at |-> ahora])]_vars

\* C28 witness: a call whose insert the store rejected has returned its
\* failure, and the table holds only the row of the other customer.
C28_Witness ==
  /\ ultimo.op = "reservar"
  /\ ultimo.tipo = "error_crear"
  /\ Len(turnos) = 1
  /\ \E p \in Callers : pc[p] = "fallo" /\ turnos[1].email # p

\* C29: reservarTurno does not refuse a slot that was free during the whole
\* call.  When a call returns "not available", or the failure of an insert the
\* unique index rejected, the table had a confirmado row of the call's fecha
\* and hora at that step (the availability query, or the insert).
C29_RechazoConActivo ==
  [][(/\ ultimo = Ninguna
      /\ ultimo'.op = "reservar"
      /\ \/ ultimo'.tipo = "no_disponible"
         \/ ultimo'.tipo = "error_crear" /\ ultimo'.detalle = "duplicado")
     => /\ PasaValidacion(ultimo'.fecha, ultimo'.hora, ahora, tz) \/ ultimo'.accesos = 2
        /\ ActivosEn(turnos, FechaDeTabla(ultimo'.fecha), HoraDeTabla(ultimo'.hora)) # {}]_vars

\* C29 witness: a call has been answered "not available" for a slot that was
\* cancelled once and is held again by a later confirmado row.
C29_Witness ==
  /\ ultimo.op = "reservar"
  /\ ultimo.tipo = "no_disponible"
  /\ \E i, j \in 1..Len(turnos) :
       /\ i < j
       /\ turnos[i].fecha = turnos[j].fecha
       /\ turnos[i].hora = turnos[j].hora
       /\ turnos[i].fecha = FechaDeTabla(ultimo.fecha)
       /\ turnos[i].hora = HoraDeTabla(ultimo.hora)
       /\ turnos[i].estado = "cancelado"
       /\ turnos[j].estado = "confirmado"

\* C30: reservations of different slots do not interfere.  When each caller
\* reserves a free slot of its own, no call is answered with a failure, in any
\* interleaving; and a cancelarTurno step leaves, for every slot other than
\* the cancelled row's, the answer of verificarDisponibilidad, the outcome of
\* reservarTurno's first step and the index's verdict on an insert as they were.
C30_SlotsIndependientes ==
  /\ [](/\ ultimo.op = "reservar" => ultimo.tipo = "exito"
        /\ \A p \in Callers : pc[p] # "fallo")
  /\ [][(ultimo = Ninguna /\ ultimo'.op = "cancelar" /\ ultimo'.tipo = "exito")
        => \A p \in Callers :
             LET f == SlotDe(p)[1]
                 h == SlotDe(p)[2]
                 fila == FilaNueva(f, h, p, "confirmado", ahora)
             IN (turnos[ultimo'.turnoId].fecha # fila.fecha
                 \/ turnos[ultimo'.turnoId].hora # fila.hora)
                => /\ RespuestaVerificar(turnos', f, h, ahora, tz, FALSE)
                      = RespuestaVerificar(turnos, f, h, ahora, tz, FALSE)
                   /\ ResultadoVerificar(turnos', f, h, ahora, tz, FALSE)
                      = ResultadoVerificar(turnos, f, h, ahora, tz, FALSE)
                   /\ ViolaUniqueTurnoActivo(turnos', fila)
                      = ViolaUniqueTurnoActivo(turnos, fila)]_vars

\* C30 witness: both calls have succeeded, the row of one slot has been
\* cancelled, and a query of the other slot has been answered "not available".
C30_Witness ==
  /\ \A p \in Callers : pc[p] = "exito"
  /\ ultimo.op = "verificar"
  /\ ultimo.tipo = "no_disponible"
  /\ \E i \in 1..Len(turnos) :
       /\ turnos[i].estado = "cancelado"
       /\ turnos[i].hora # HoraDeTabla(ultimo.hora)

\* C31: verificarDisponibilidad and reservarTurno agree.  When the query has
\* answered that a slot is available, a reservarTurno call for that slot made
\* next, on the same table and at the same instant, passes its validations and
\* its availability query, and its insert is accepted.
C31_DisponibleEntoncesReserva ==
  (ultimo.op = "verificar" /\ ultimo.tipo = "disponible")
  => /\ ResultadoVerificar(turnos, ultimo.fecha, ultimo.hora, ahora, tz, FALSE).tipo
          = "creando"
     /\ ~ViolaUniqueTurnoActivo(turnos,
           FilaNueva(ultimo.fecha, ultimo.hora, Primero, "confirmado", ahora))

\* C32: the day the listing takes as today when it is given no dates is the day
\* the validation of a date takes as today: validarFechaFutura accepts that
\* day and refuses the day before it, at every time of day and in every zone.
C32_MismoHoy ==
  (ultimo.op = "listar" /\ ultimo.argDesde = <<>>)
  => /\ ultimo.fecha = FechaISO(ahora)
     /\ validarFechaFutura(ultimo.fecha, ahora, tz)
     /\ ~validarFechaFutura(FechaISO(ahora - MinutosPorDia), ahora, tz)

====
